---- MODULE Spec2Model ----
(***************************************************************************)
(* Model of worker/scraper.py: the WebScraper session (driver, browser     *)
(* process, context), the page scrape operation WebScraper.scrape, the     *)
(* teardown WebScraper.close, and the entry points scrape_url and          *)
(* scrape_urls_batch.  One action is one resumption of a coroutine: the    *)
(* awaited engine call returns or raises, and the code runs on to its next *)
(* await.  The browser engine is the environment: each engine call may     *)
(* fail, and a call on a released resource always fails.                   *)
(***************************************************************************)
EXTENDS Integers, Sequences, FiniteSets, TLC

\* ------------------------------------------------------------------ bounds
MaxUrls == 2      \* longest URL list given to an entry point
MaxConc == 2      \* largest max_concurrent given to scrape_urls_batch
MaxCalls == 3     \* calls a client makes on a WebScraper it drives itself

\* ------------------------------------------------------------------ values
Urls == {"a", "b"}

\* Optional[T]: None is the empty set, a value x is {x}.
NONE == {}
Some(x) == {x}
IsNone(o) == o = {}
TheValue(o) == CHOOSE x \in o : TRUE
\* Python truthiness of an Optional[str]: None and "" are falsy.
Truthy(o) == o # NONE /\ o # Some("")

SeqsUpTo(S, n) == UNION {[1..k -> S] : k \in 0..n}

\* The URL lists given to scrape_urls_batch, up to the naming of the URLs:
\* a list starts with "a".
UrlLists == {us \in SeqsUpTo(Urls, MaxUrls) : us = <<>> \/ us[1] = "a"}

\* ------------------------------------------------------- metadata extractor
EmptyMeta == [k \in {} |-> NONE]

Put(m, k, v) == [x \in DOMAIN m \cup {k} |-> IF x = k THEN v ELSE m[x]]

\* The for loop over the <meta> elements (scraper.py 149-157).
RECURSIVE MetaTags(_, _)
MetaTags(tags, m) ==
    IF tags = <<>> THEN m
    ELSE LET t == Head(tags)
             m2 == IF Truthy(t.name) /\ Truthy(t.content)
                     THEN Put(m, TheValue(t.name), t.content)
                   ELSE IF Truthy(t.property) /\ Truthy(t.content)
                     THEN Put(m, TheValue(t.property), t.content)
                   ELSE m
         IN MetaTags(Tail(tags), m2)

\* _extract_metadata on a document d.  d.fail names the engine call that
\* raises ("none" when none does; "tag": an attribute read of the last <meta>
\* element); whatever was collected before it is kept.
ExtractMetadata(d) ==
    LET err == Some("extraction failed")
        m1 == MetaTags(d.tags, EmptyMeta)
        m2 == IF d.canonical # NONE
                 THEN Put(m1, "canonical", TheValue(d.canonical)) ELSE m1
        m3 == IF d.lang # NONE /\ Truthy(TheValue(d.lang))
                 THEN Put(m2, "language", TheValue(d.lang)) ELSE m2
    IN CASE d.fail = "tags" -> Put(EmptyMeta, "extraction_error", err)
         [] d.fail = "tag" ->
              Put(MetaTags(SubSeq(d.tags, 1, Len(d.tags) - 1), EmptyMeta),
                  "extraction_error", err)
         [] d.fail = "canonical" -> Put(m1, "extraction_error", err)
         [] d.fail = "lang" -> Put(m2, "extraction_error", err)
         [] OTHER -> m3

Tag(n, p, c) == [name |-> n, property |-> p, content |-> c]

\* The document served where several scrapes run: its extraction fails at the
\* last step, after three entries were collected.
Doms ==
    { [tags |-> <<Tag(Some("description"), NONE, Some("d"))>>,
       canonical |-> Some(Some("href")), lang |-> Some(Some("en")),
       fail |-> "lang"] }

\* The <meta> elements of a document: none, one with a name, one with a
\* property after one without content, and one named extraction_error.
TagLists ==
    { <<>>,
      <<Tag(Some("description"), NONE, Some("d"))>>,
      <<Tag(Some("keywords"), NONE, NONE), Tag(NONE, Some("og:title"), Some("t"))>>,
      <<Tag(Some("extraction_error"), NONE, Some("x")),
        Tag(Some("author"), NONE, Some("me"))>> }

\* Every document over TagLists: the canonical link is absent, present without
\* href or present with one; so is the lang attribute of the html element;
\* and any of the extractor's engine calls that the document makes it do may
\* raise.
AllDoms ==
    {d \in [tags : TagLists,
            canonical : {NONE, Some(NONE), Some(Some("href"))},
            lang : {NONE, Some(NONE), Some(Some("en"))},
            fail : {"none", "tags", "tag", "canonical", "lang"}] :
        d.fail = "tag" => d.tags # <<>>}

\* ------------------------------------------------------------------- state
VARIABLES
    entry,              \* "batch" (scrape_urls_batch), "url" (scrape_url),
                        \* "sync" (scrape_url_sync),
                        \* "direct" (a client drives a WebScraper itself)
    urls,               \* the URLs to scrape, in order
    max_concurrent,     \* scrape_urls_batch's limit
    wait_for_selector,  \* Optional[str] given to scrape
    playwright,         \* self.playwright: Unset = attribute not set, else a handle
    browser,            \* self.browser: Unset = None, else a handle
    context,            \* self.context: Unset = None, else a handle
    engine,             \* the engine's resources: handle -> state
    pc,                 \* position of each coroutine: 0 the caller, i the i-th scrape
    target,             \* the handle the pending engine call of a coroutine acts on
    page,               \* scrape's local `page`: "none", "open", "closed"
    result,             \* scrape's local `result`
    fate,               \* what the engine itself answered to each scrape
    pageclose,          \* how each scrape's page.close() ended: "none", "ok", "raised"
    semaphore,          \* value of the asyncio.Semaphore
    closelog,           \* releases attempted by the close() call in progress or last run
    closecalls,         \* number of close() calls started
    finished,           \* the scrapes of the current gather, in order of completion
    ops,                \* the calls the direct client has made, in order
    blockexc,           \* exception raised inside the scoped block ("none" if none)
    outcome,            \* how the entry point ended: "pending", "returned", "raised"
    ret,                \* the value the entry point returned
    loop_running,       \* scrape_url_sync: the calling thread has a running event loop
    raises,             \* the exception type a failing engine call of the setup raises
    thread,             \* scrape_url_sync: the thread the scrape_url run is on
    runs,               \* scrape_url_sync: scrape_url runs started
    received            \* scrape_url_sync: what its caller got

vars == <<entry, urls, max_concurrent, wait_for_selector, playwright, browser,
          context, engine, pc, target, page, result, fate, pageclose, semaphore, closelog,
          closecalls, finished, ops, blockexc, outcome, ret, loop_running,
          raises, thread, runs, received>>

\* The state of a scrape_url_sync call.
syncvars == <<loop_running, raises, thread, runs, received>>

Tasks == 1..Len(urls)
Procs == 0..Len(urls)

\* ------------------------------------------------------------------ engine
\* A handle names the resource by what started it: the client's call number
\* (0 under an entry point), the coroutine, and the kind of resource.
Unset == [op |-> 0, by |-> 0, kind |-> "none"]
Handle(p, kind) == [op |-> Len(ops), by |-> p, kind |-> kind]

\* The engine with a new resource h started inside resource parent.
Started(h, parent) ==
    [x \in DOMAIN engine \cup {h} |->
        IF x = h THEN [parent |-> parent, live |-> TRUE, closes |-> 0, again |-> 0]
        ELSE engine[x]]

\* A resource is usable while it and everything it lives in are unreleased.
RECURSIVE Alive(_)
Alive(h) ==
    /\ h \in DOMAIN engine
    /\ engine[h].live
    /\ (engine[h].parent = Unset \/ Alive(engine[h].parent))

\* The answers an engine call on handle h can give: a call on a released
\* resource fails whatever the engine would have answered otherwise.
Answers(h) == IF Alive(h) THEN BOOLEAN ELSE {FALSE}

\* ------------------------------------------------------------------ result
\* The result dict as scrape creates it (scraper.py 84-93).
NewResult(url) ==
    [url |-> url, html |-> NONE, title |-> NONE, meta |-> EmptyMeta,
     status_code |-> NONE, timestamp |-> "utcnow", success |-> FALSE,
     error |-> NONE]

NoFate == [failed |-> "none", response |-> NONE, dom |-> NONE, selector |-> "none"]

\* The responses page.goto may return for url u (None: no response object).
Responses(u) == {NONE, Some([status |-> 200, url |-> "final"])}

\* The wait_for_selector arguments: None, a CSS selector, the empty string.
Selectors == {NONE, Some("h1"), Some("")}

\* The exception types a failing engine call may raise: the engine's own
\* Error class, or a RuntimeError.
ErrorTypes == {"Error", "RuntimeError"}

\* ------------------------------------------------------------------- Init
Init ==
    /\ entry \in {"batch", "url", "sync", "direct"}
    /\ urls \in CASE entry = "batch" -> UrlLists
                   [] entry \in {"url", "sync"} -> {<<u>> : u \in Urls}
                   [] OTHER -> {<<"a">>, <<"a", "b">>}
    /\ max_concurrent \in IF entry = "batch" THEN (-1)..MaxConc ELSE {0}
    /\ wait_for_selector \in IF entry = "url" THEN Selectors ELSE {NONE}
    /\ playwright = Unset
    /\ browser = Unset
    /\ context = Unset
    /\ engine = [h \in {} |-> Unset]
    /\ pc = [p \in Procs |-> IF p = 0
                               THEN (CASE entry = "direct" -> "idle"
                                       [] entry = "sync" -> "sync_call"
                                       [] OTHER -> "aenter")
                               ELSE "none"]
    /\ target = [p \in Procs |-> Unset]
    /\ page = [i \in Tasks |-> "none"]
    /\ result = [i \in Tasks |-> NewResult(urls[i])]
    /\ fate = [i \in Tasks |-> NoFate]
    /\ pageclose = [i \in Tasks |-> "none"]
    /\ semaphore = 0
    /\ closelog = <<>>
    /\ closecalls = 0
    /\ finished = <<>>
    /\ ops = <<>>
    /\ blockexc = "none"
    /\ outcome = "pending"
    /\ ret = <<>>
    /\ loop_running \in IF entry = "sync" THEN BOOLEAN ELSE {FALSE}
    /\ raises \in IF entry = "sync" THEN ErrorTypes ELSE {"Error"}
    /\ thread = "none"
    /\ runs = 0
    /\ received = "nothing"
\* --------------------------------------------- session open (scraper.py 36-53)
\* __aenter__: the scoped block's entry calls _initialize_browser.
AEnter ==
    /\ pc[0] = "aenter"
    /\ pc' = [pc EXCEPT ![0] = "init_start"]
    /\ UNCHANGED <<syncvars, pageclose, entry, urls, max_concurrent,
                   wait_for_selector, playwright,
                   browser, context, engine, target, page, result, fate,
                   semaphore, closelog, closecalls, finished, ops, blockexc,
                   outcome, ret>>

\* Where coroutine p goes when _initialize_browser raises in it: nothing in
\* __aenter__ or scrape catches it.
PcAfterInitRaise(p) ==
    IF p = 0 THEN (IF entry = "direct" THEN "idle" ELSE "done") ELSE "raised"

InitRaise(p) ==
    /\ pc' = [pc EXCEPT ![p] = PcAfterInitRaise(p)]
    /\ outcome' = IF p = 0 /\ entry # "direct" THEN "raised" ELSE outcome
    /\ finished' = IF p = 0 THEN finished ELSE Append(finished, p)
    /\ semaphore' = IF p # 0 /\ entry = "batch" THEN semaphore + 1 ELSE semaphore

\* self.playwright = await async_playwright().start()
InitStart(p) ==
    /\ pc[p] = "init_start"
    /\ \E ok \in BOOLEAN :
         IF ok
           THEN /\ engine' = Started(Handle(p, "driver"), Unset)
                /\ playwright' = Handle(p, "driver")
                /\ target' = [target EXCEPT ![p] = Handle(p, "driver")]
                /\ pc' = [pc EXCEPT ![p] = "init_launch"]
                /\ UNCHANGED <<outcome, finished, semaphore>>
           ELSE /\ InitRaise(p)
                /\ UNCHANGED <<engine, playwright, target>>
    /\ UNCHANGED <<syncvars, pageclose, entry, urls, max_concurrent,
                   wait_for_selector, browser,
                   context, page, result, fate, closelog, closecalls, ops,
                   blockexc, ret>>

\* self.browser = await self.playwright.chromium.launch(...)
InitLaunch(p) ==
    /\ pc[p] = "init_launch"
    /\ \E ok \in Answers(target[p]) :
         IF ok
           THEN /\ engine' = Started(Handle(p, "browser"), target[p])
                /\ browser' = Handle(p, "browser")
                /\ target' = [target EXCEPT ![p] = Handle(p, "browser")]
                /\ pc' = [pc EXCEPT ![p] = "init_context"]
                /\ UNCHANGED <<outcome, finished, semaphore>>
           ELSE /\ InitRaise(p)
                /\ UNCHANGED <<engine, browser, target>>
    /\ UNCHANGED <<syncvars, pageclose, entry, urls, max_concurrent,
                   wait_for_selector, playwright,
                   context, page, result, fate, closelog, closecalls, ops,
                   blockexc, ret>>

\* Where coroutine p goes when _initialize_browser returns: the caller enters
\* its block (or the client's call returns); a scrape goes on to line 83.
PcAfterInit(p) ==
    IF p = 0 THEN (IF entry = "direct" THEN "idle" ELSE "body") ELSE "new_page"

\* self.context = await self.browser.new_context(...)
InitContext(p) ==
    /\ pc[p] = "init_context"
    /\ \E ok \in Answers(target[p]) :
         IF ok
           THEN /\ engine' = Started(Handle(p, "context"), target[p])
                /\ context' = Handle(p, "context")
                /\ target' = [target EXCEPT ![p] = Handle(p, "context")]
                /\ pc' = [pc EXCEPT ![p] = PcAfterInit(p)]
                /\ UNCHANGED <<outcome, finished, semaphore>>
           ELSE /\ InitRaise(p)
                /\ UNCHANGED <<engine, context, target>>
    /\ UNCHANGED <<syncvars, pageclose, entry, urls, max_concurrent,
                   wait_for_selector, playwright,
                   browser, page, result, fate, closelog, closecalls, ops,
                   blockexc, ret>>
\* ------------------------------------------------ scrape (scraper.py 55-131)
\* Faulty variant: the slot is acquired by hand and never given back.
SemaphoreKept(newpc) == semaphore

\* The semaphore's count after scrape i leaves with position newpc: in a batch
\* `async with semaphore` releases the slot when scrape returns or raises.
SemaphoreAfter(newpc) ==
    IF entry = "batch" /\ newpc \in {"done", "raised"}
      THEN semaphore + 1 ELSE semaphore

\* Scrape i goes on to newpc with its result dict now r.
Advance(i, newpc, r) ==
    /\ pc' = [pc EXCEPT ![i] = newpc]
    /\ result' = [result EXCEPT ![i] = r]
    /\ semaphore' = SemaphoreAfter(newpc)
    /\ finished' = IF newpc \in {"done", "raised"} THEN Append(finished, i)
                   ELSE finished

\* except Exception as e (120-122): the failure becomes the result's error.
Caught(r, msg) == [r EXCEPT !.error = Some(msg), !.success = FALSE]

\* Faulty variant: no except clause, the engine's exception leaves scrape.
PcExceptionEscapes(i) == "raised"

\* Where scrape i goes after the except clause: the finally clause closes the
\* page if one was opened, and then the result is returned (124-131).
PcAfterException(i) == IF page[i] # "none" THEN "close_page" ELSE "done"

\* Line 80: the lazy open.  The session counts as open when both fields are set.
NeedsOpen == browser = Unset \/ context = Unset

\* The first resumption of scrape i: lines 80-97, up to the first await.
ScrapeStart(i) ==
    /\ pc[i] = "start"
    /\ pc' = [pc EXCEPT ![i] = IF NeedsOpen THEN "init_start" ELSE "new_page"]
    /\ target' = [target EXCEPT ![i] = context]
    /\ UNCHANGED <<syncvars, pageclose, entry, urls, max_concurrent,
                   wait_for_selector, playwright,
                   browser, context, engine, page, result, fate, semaphore,
                   closelog, closecalls, finished, ops, blockexc, outcome, ret>>

\* page = await self.context.new_page()
NewPage(i) ==
    /\ pc[i] = "new_page"
    /\ \E ok \in BOOLEAN :
         /\ fate' = [fate EXCEPT ![i].failed = IF ok THEN @ ELSE "new_page"]
         /\ IF ok /\ Alive(target[i])
              THEN /\ page' = [page EXCEPT ![i] = "open"]
                   /\ Advance(i, "goto", result[i])
              ELSE /\ page' = page
                   /\ Advance(i, PcAfterException(i), Caught(result[i], "new_page failed"))
    /\ UNCHANGED <<syncvars, pageclose, entry, urls, max_concurrent,
                   wait_for_selector, playwright,
                   browser, context, engine, target, closelog, closecalls, ops,
                   blockexc, outcome, ret>>

\* Faulty variant: the status is recorded, the resolved URL is not.
WithStatusOnly(r, resp) ==
    IF resp # NONE
      THEN [r EXCEPT !.status_code = Some(TheValue(resp).status)]
      ELSE r

\* Lines 103-105: status_code and url are taken from a response object only.
WithResponse(r, resp) ==
    IF resp # NONE
      THEN [r EXCEPT !.status_code = Some(TheValue(resp).status),
                     !.url = TheValue(resp).url]
      ELSE r

\* Faulty variant: the page is read without waiting for the selector.
PcSkipsSelector == "content"

\* Line 108: the selector wait is made when a selector was given.
PcAfterGoto == IF Truthy(wait_for_selector) THEN "wait_selector" ELSE "content"

\* response = await page.goto(url, wait_until='networkidle')
Goto(i) ==
    /\ pc[i] = "goto"
    /\ \E ok \in BOOLEAN, resp \in Responses(urls[i]) :
         /\ fate' = [fate EXCEPT ![i].failed = IF ok THEN @ ELSE "goto",
                                 ![i].response = IF ok THEN resp ELSE @]
         /\ IF ok /\ Alive(target[i])
              THEN Advance(i, PcAfterGoto, WithResponse(result[i], resp))
              ELSE Advance(i, PcAfterException(i), Caught(result[i], "goto failed"))
    /\ UNCHANGED <<syncvars, pageclose, entry, urls, max_concurrent,
                   wait_for_selector, playwright,
                   browser, context, engine, target, page, closelog, closecalls,
                   ops, blockexc, outcome, ret>>

\* await page.wait_for_selector(wait_for_selector)
WaitSelector(i) ==
    /\ pc[i] = "wait_selector"
    /\ \E ok \in BOOLEAN :
         /\ fate' = [fate EXCEPT ![i].failed = IF ok THEN @ ELSE "wait_selector",
                                 ![i].selector = IF ok /\ Alive(target[i])
                                                   THEN "appeared" ELSE @]
         /\ IF ok /\ Alive(target[i])
              THEN Advance(i, "content", result[i])
              ELSE Advance(i, PcAfterException(i),
                           Caught(result[i], "selector timeout"))
    /\ UNCHANGED <<syncvars, pageclose, entry, urls, max_concurrent,
                   wait_for_selector, playwright,
                   browser, context, engine, target, page, closelog, closecalls,
                   ops, blockexc, outcome, ret>>

\* result['html'] = await page.content()
Content(i) ==
    /\ pc[i] = "content"
    /\ \E ok \in BOOLEAN :
         /\ fate' = [fate EXCEPT ![i].failed = IF ok THEN @ ELSE "content"]
         /\ IF ok /\ Alive(target[i])
              THEN Advance(i, "title", [result[i] EXCEPT !.html = Some("<html>")])
              ELSE Advance(i, PcAfterException(i), Caught(result[i], "content failed"))
    /\ UNCHANGED <<syncvars, pageclose, entry, urls, max_concurrent,
                   wait_for_selector, playwright,
                   browser, context, engine, target, page, closelog, closecalls,
                   ops, blockexc, outcome, ret>>

\* result['title'] = await page.title()
Title(i) ==
    /\ pc[i] = "title"
    /\ \E ok \in BOOLEAN :
         /\ fate' = [fate EXCEPT ![i].failed = IF ok THEN @ ELSE "title"]
         /\ IF ok /\ Alive(target[i])
              THEN Advance(i, "meta", [result[i] EXCEPT !.title = Some("title")])
              ELSE Advance(i, PcAfterException(i), Caught(result[i], "title failed"))
    /\ UNCHANGED <<syncvars, pageclose, entry, urls, max_concurrent,
                   wait_for_selector, playwright,
                   browser, context, engine, target, page, closelog, closecalls,
                   ops, blockexc, outcome, ret>>

\* The documents a scrape may be served: every document under scrape_url, the
\* one of Doms where several scrapes run.
Documents == IF entry = "url" THEN AllDoms ELSE Doms

\* The document _extract_metadata reads: on a released context its first
\* engine call already raises.
Served(i, d) == IF Alive(target[i]) THEN d ELSE [d EXCEPT !.fail = "tags"]

\* Faulty variant: no try/except in _extract_metadata, its failure reaches
\* scrape's except clause.
ExtractionUnguarded(d) == d.fail # "none"

\* Whether _extract_metadata raises on document d: every engine call it makes
\* is inside its try block (146-172), whose except clause returns normally.
ExtractionRaises(d) == FALSE

\* result['meta'] = await self._extract_metadata(page); result['success'] = True
Meta(i) ==
    /\ pc[i] = "meta"
    /\ \E d \in Documents :
         /\ fate' = [fate EXCEPT ![i].dom = Some(d)]
         /\ IF ExtractionRaises(Served(i, d))
              THEN Advance(i, PcAfterException(i),
                           Caught(result[i], "extraction failed"))
              ELSE Advance(i, "close_page",
                           [result[i] EXCEPT !.meta = ExtractMetadata(Served(i, d)),
                                             !.success = TRUE])
    /\ UNCHANGED <<syncvars, pageclose, entry, urls, max_concurrent,
                   wait_for_selector, playwright,
                   browser, context, engine, target, page, closelog, closecalls,
                   ops, blockexc, outcome, ret>>

\* Faulty variant: no try/except around page.close(), its exception leaves
\* scrape.
PcPageCloseRaises(ok) == IF ok THEN "done" ELSE "raised"

\* except Exception: pass (126-129): whether page.close() returned or raised,
\* scrape goes on to return its result.
PcAfterPageClose(ok) == "done"

\* finally: await page.close(), a failure swallowed ("Page already closed":
\* the page is gone either way); then return result.
ClosePage(i) ==
    /\ pc[i] = "close_page"
    /\ page' = [page EXCEPT ![i] = "closed"]
    /\ \E ok \in BOOLEAN :
         /\ pageclose' = [pageclose EXCEPT ![i] = IF ok THEN "ok" ELSE "raised"]
         /\ Advance(i, PcAfterPageClose(ok), result[i])
    /\ UNCHANGED <<syncvars, entry, urls, max_concurrent,
                   wait_for_selector, playwright,
                   browser, context, engine, target, fate, closelog, closecalls,
                   ops, blockexc, outcome, ret>>
\* -------------------------------- entry points (scraper.py 198-222, 264-294)
\* asyncio.Semaphore(n) raises ValueError for n < 0.
SemaphoreRejects(n) == n < 0

\* The scoped block starts.  scrape_urls_batch makes the semaphore and hands
\* one scrape_with_limit per URL to asyncio.gather; scrape_url awaits one scrape.
Body ==
    /\ pc[0] = "body"
    /\ IF entry = "batch" /\ SemaphoreRejects(max_concurrent)
         THEN /\ blockexc' = "ValueError"
              /\ pc' = [pc EXCEPT ![0] = "aexit"]
              /\ UNCHANGED semaphore
         ELSE /\ blockexc' = blockexc
              /\ semaphore' = max_concurrent
              /\ pc' = [p \in Procs |-> IF p = 0 THEN "gather"
                                        ELSE IF entry = "batch" THEN "gate"
                                        ELSE "start"]
    /\ UNCHANGED <<syncvars, pageclose, entry, urls, max_concurrent,
                   wait_for_selector, playwright,
                   browser, context, engine, target, page, result, fate,
                   closelog, closecalls, finished, ops, outcome, ret>>

\* Faulty variant: the gate lets every scrape through.
GateAlwaysOpen == TRUE

\* async with semaphore: a scrape passes the gate while a slot is free.
GateOpen == semaphore > 0

Acquire(i) ==
    /\ pc[i] = "gate"
    /\ GateOpen
    /\ semaphore' = semaphore - 1
    /\ pc' = [pc EXCEPT ![i] = "start"]
    /\ UNCHANGED <<syncvars, pageclose, entry, urls, max_concurrent,
                   wait_for_selector, playwright,
                   browser, context, engine, target, page, result, fate,
                   closelog, closecalls, finished, ops, blockexc, outcome, ret>>

\* Faulty variant: the results in the order in which the scrapes finished.
GatherAsCompleted == [k \in 1..Len(finished) |-> result[finished[k]]]

\* What asyncio.gather(*tasks) returns: the results in the order of the tasks.
GatherResults == [i \in Tasks |-> result[i]]

\* Faulty variant: the awaiter is resumed as soon as one task has ended.
GatherFirstCompleted == \E i \in Tasks : pc[i] \in {"done", "raised"}

\* asyncio.gather resumes its awaiter when every task has returned, or as soon
\* as one has raised (the others are left running).
GatherReady == (\E i \in Tasks : pc[i] = "raised") \/ (\A i \in Tasks : pc[i] = "done")

GatherDone ==
    /\ entry # "direct"
    /\ pc[0] = "gather"
    /\ GatherReady
    /\ IF \E i \in Tasks : pc[i] = "raised"
         THEN /\ blockexc' = "task"
              /\ ret' = ret
         ELSE /\ blockexc' = blockexc
              /\ ret' = GatherResults
    /\ pc' = [pc EXCEPT ![0] = "aexit"]
    /\ pageclose' = [i \in Tasks |-> "none"]
    /\ UNCHANGED <<syncvars, entry, urls, max_concurrent,
                   wait_for_selector, playwright,
                   browser, context, engine, target, page, result, fate,
                   semaphore, closelog, closecalls, finished, ops, outcome>>

\* The client's gather of its scrapes has ended (every scrape returned, or one
\* raised and the client gave the others up): the client drops what they left.
ClientGathered ==
    /\ entry = "direct"
    /\ pc[0] = "gather"
    /\ \A i \in Tasks : pc[i] \in {"done", "raised"}
    /\ pc' = [p \in Procs |-> IF p = 0 THEN "idle" ELSE "none"]
    /\ target' = [p \in Procs |-> Unset]
    /\ page' = [i \in Tasks |-> "none"]
    /\ result' = [i \in Tasks |-> NewResult(urls[i])]
    /\ fate' = [i \in Tasks |-> NoFate]
    /\ pageclose' = [i \in Tasks |-> "none"]
    /\ finished' = <<>>
    /\ UNCHANGED <<syncvars, entry, urls, max_concurrent,
                   wait_for_selector, playwright,
                   browser, context, engine, semaphore, closelog, closecalls,
                   ops, blockexc, outcome, ret>>

\* __aexit__ (41-44): the block is left, by return or by exception; close().
AExit ==
    /\ pc[0] = "aexit"
    /\ pc' = [pc EXCEPT ![0] = "close_context"]
    /\ closecalls' = closecalls + 1
    /\ closelog' = <<>>
    /\ UNCHANGED <<syncvars, pageclose, entry, urls, max_concurrent,
                   wait_for_selector, playwright,
                   browser, context, engine, target, page, result, fate,
                   semaphore, finished, ops, blockexc, outcome, ret>>

\* Faulty variant: __aexit__ returns a true value.
AExitReturnsTrue == TRUE

\* What __aexit__ returns: a true value would suppress the block's exception.
AExitReturn == FALSE

\* __aexit__ has returned: the block's exception goes on to the caller unless
\* suppressed, otherwise the entry point returns the block's value.
ExitBlock ==
    /\ pc[0] = "exit"
    /\ pc' = [pc EXCEPT ![0] = "done"]
    /\ outcome' = IF blockexc # "none" /\ ~AExitReturn THEN "raised" ELSE "returned"
    /\ UNCHANGED <<syncvars, pageclose, entry, urls, max_concurrent,
                   wait_for_selector, playwright,
                   browser, context, engine, target, page, result, fate,
                   semaphore, closelog, closecalls, finished, ops, blockexc, ret>>

\* ---------------------------------------- scrape_url_sync (scraper.py 225-260)
\* try: asyncio.get_running_loop().  With a running loop the scrape_url run is
\* handed to a worker thread (asyncio.run inside ThreadPoolExecutor) and the
\* caller blocks in future.result(); without one get_running_loop raises
\* RuntimeError and the except clause runs asyncio.run on the calling thread.
SyncCall ==
    /\ pc[0] = "sync_call"
    /\ thread' = IF loop_running THEN "worker" ELSE "caller"
    /\ runs' = runs + 1
    /\ pc' = [pc EXCEPT ![0] = "aenter"]
    /\ UNCHANGED <<pageclose, entry, urls, max_concurrent,
                   wait_for_selector, playwright,
                   browser, context, engine, target, page, result, fate,
                   semaphore, closelog, closecalls, finished, ops, blockexc,
                   outcome, ret, loop_running, raises, received>>

AsyncioRunError ==
    "RuntimeError: asyncio.run() cannot be called from a running event loop"

\* What the caller of scrape_url_sync gets when the run on thread th ended
\* with out, raising exc if it raised.  future.result() re-raises the run's
\* exception inside the try block: a RuntimeError is caught by the except
\* clause meant for get_running_loop, which calls asyncio.run on the calling
\* thread, whose loop is running, so that asyncio.run raises at once.
SyncReceives(th, out, exc) ==
    IF out = "returned" THEN "result"
    ELSE IF th = "worker" /\ exc = "RuntimeError" THEN AsyncioRunError
    ELSE exc

\* The scrape_url run has ended: scrape_url_sync returns or raises.
SyncReturn ==
    /\ entry = "sync"
    /\ pc[0] = "done"
    /\ received' = SyncReceives(thread, outcome, raises)
    /\ pc' = [pc EXCEPT ![0] = "sync_done"]
    /\ UNCHANGED <<pageclose, entry, urls, max_concurrent,
                   wait_for_selector, playwright,
                   browser, context, engine, target, page, result, fate,
                   semaphore, closelog, closecalls, finished, ops, blockexc,
                   outcome, ret, loop_running, raises, thread, runs>>

\* ------------------------------------------------- close (scraper.py 176-194)
\* Faulty variant: no try/except around the release, its exception leaves close().
AfterReleaseUnguarded(ok, next) == IF ok THEN next ELSE "close_failed"

\* except Exception: pass -- whether the release returned or raised, close()
\* goes on to its next step.
AfterRelease(ok, next) == next

\* The engine's release of handle h: it is released if the call succeeds.
\* closes counts the release calls made on h, again those made on it when it
\* had already been released.
Released(h, ok) ==
    [engine EXCEPT ![h].closes = @ + 1,
                   ![h].again = IF Alive(h) THEN @ ELSE @ + 1,
                   ![h].live = IF ok THEN FALSE ELSE @]

\* Where the caller of close() goes when close() returns.
PcAfterClose == IF entry = "direct" THEN "idle" ELSE "exit"

\* if self.context: await self.context.close()
CloseContext ==
    /\ pc[0] = "close_context"
    /\ IF context # Unset
         THEN \E ok \in BOOLEAN :
                /\ engine' = Released(context, ok)
                /\ closelog' = Append(closelog, "context")
                /\ pc' = [pc EXCEPT ![0] = AfterRelease(ok, "close_browser")]
         ELSE /\ pc' = [pc EXCEPT ![0] = "close_browser"]
              /\ UNCHANGED <<engine, closelog>>
    /\ UNCHANGED <<syncvars, pageclose, entry, urls, max_concurrent,
                   wait_for_selector, playwright,
                   browser, context, target, page, result, fate, semaphore,
                   closecalls, finished, ops, blockexc, outcome, ret>>

\* if self.browser: await self.browser.close()
CloseBrowser ==
    /\ pc[0] = "close_browser"
    /\ IF browser # Unset
         THEN \E ok \in BOOLEAN :
                /\ engine' = Released(browser, ok)
                /\ closelog' = Append(closelog, "browser")
                /\ pc' = [pc EXCEPT ![0] = AfterRelease(ok, "close_driver")]
         ELSE /\ pc' = [pc EXCEPT ![0] = "close_driver"]
              /\ UNCHANGED <<engine, closelog>>
    /\ UNCHANGED <<syncvars, pageclose, entry, urls, max_concurrent,
                   wait_for_selector, playwright,
                   browser, context, target, page, result, fate, semaphore,
                   closecalls, finished, ops, blockexc, outcome, ret>>

\* if hasattr(self, 'playwright'): await self.playwright.stop()
CloseDriver ==
    /\ pc[0] = "close_driver"
    /\ IF playwright # Unset
         THEN \E ok \in BOOLEAN :
                /\ engine' = Released(playwright, ok)
                /\ closelog' = Append(closelog, "driver")
                /\ pc' = [pc EXCEPT ![0] = AfterRelease(ok, PcAfterClose)]
         ELSE /\ pc' = [pc EXCEPT ![0] = PcAfterClose]
              /\ UNCHANGED <<engine, closelog>>
    /\ UNCHANGED <<syncvars, pageclose, entry, urls, max_concurrent,
                   wait_for_selector, playwright,
                   browser, context, target, page, result, fate, semaphore,
                   closecalls, finished, ops, blockexc, outcome, ret>>

\* ------------------------------------- a client driving a WebScraper itself
\* The client does one thing at a time: it opens the session, closes it, or
\* gathers one scrape call per URL (with no gate).
RECURSIVE CallsIn(_)
CallsIn(os) ==
    IF os = <<>> THEN 0
    ELSE (IF Head(os) = "scrape" THEN Len(urls) ELSE 1) + CallsIn(Tail(os))

\* The calls the client has made on the WebScraper so far.
Calls == CallsIn(ops)

ClientOpen ==
    /\ pc[0] = "idle"
    /\ Calls < MaxCalls
    /\ ops' = Append(ops, "open")
    /\ pc' = [pc EXCEPT ![0] = "init_start"]
    /\ UNCHANGED <<syncvars, pageclose, entry, urls, max_concurrent,
                   wait_for_selector, playwright,
                   browser, context, engine, target, page, result, fate,
                   semaphore, closelog, closecalls, finished, blockexc, outcome,
                   ret>>

ClientScrape ==
    /\ pc[0] = "idle"
    /\ Calls + Len(urls) <= MaxCalls
    /\ ops' = Append(ops, "scrape")
    /\ pc' = [p \in Procs |-> IF p = 0 THEN "gather" ELSE "start"]
    /\ UNCHANGED <<syncvars, pageclose, entry, urls, max_concurrent,
                   wait_for_selector, playwright,
                   browser, context, engine, target, page, result, fate,
                   semaphore, closelog, closecalls, finished, blockexc, outcome,
                   ret>>

ClientClose ==
    /\ pc[0] = "idle"
    /\ Calls < MaxCalls
    /\ ops' = Append(ops, "close")
    /\ pc' = [pc EXCEPT ![0] = "close_context"]
    /\ closecalls' = closecalls + 1
    /\ closelog' = <<>>
    /\ UNCHANGED <<syncvars, pageclose, entry, urls, max_concurrent,
                   wait_for_selector, playwright,
                   browser, context, engine, target, page, result, fate,
                   semaphore, finished, blockexc, outcome, ret>>

\* --------------------------------------------------------- specification
Next ==
    \/ AEnter
    \/ \E p \in Procs : InitStart(p)
    \/ \E p \in Procs : InitLaunch(p)
    \/ \E p \in Procs : InitContext(p)
    \/ Body
    \/ \E i \in Tasks : Acquire(i)
    \/ \E i \in Tasks : ScrapeStart(i)
    \/ \E i \in Tasks : NewPage(i)
    \/ \E i \in Tasks : Goto(i)
    \/ \E i \in Tasks : WaitSelector(i)
    \/ \E i \in Tasks : Content(i)
    \/ \E i \in Tasks : Title(i)
    \/ \E i \in Tasks : Meta(i)
    \/ \E i \in Tasks : ClosePage(i)
    \/ GatherDone
    \/ ClientGathered
    \/ AExit
    \/ ExitBlock
    \/ CloseContext
    \/ CloseBrowser
    \/ CloseDriver
    \/ ClientOpen
    \/ ClientScrape
    \/ ClientClose
    \/ SyncCall
    \/ SyncReturn

Spec == Init /\ [][Next]_vars

\* ------------------------------------ scrape_urls_batch under a fair schedule
\* The steps of the coroutine of scrape_urls_batch itself.
MainStep ==
    \/ AEnter
    \/ InitStart(0)
    \/ InitLaunch(0)
    \/ InitContext(0)
    \/ Body
    \/ GatherDone
    \/ AExit
    \/ ExitBlock
    \/ CloseContext
    \/ CloseBrowser
    \/ CloseDriver

\* The steps of the task scrape_with_limit(urls[i]).
TaskStep(i) ==
    /\ i \in Tasks
    /\ \/ Acquire(i)
       \/ ScrapeStart(i)
       \/ NewPage(i)
       \/ Goto(i)
       \/ Content(i)
       \/ Title(i)
       \/ Meta(i)
       \/ ClosePage(i)

\* A batch call; which URLs are scraped decides no step, so one URL stands for
\* all of them.
InitBatch == Init /\ entry = "batch" /\ \A i \in Tasks : urls[i] = "a"

NextBatch == MainStep \/ \E i \in Tasks : TaskStep(i)

\* The event loop resumes every coroutine that is ready, and every engine call
\* eventually returns or raises (by its timeout at the latest); the semaphore
\* wakes a waiter whenever a slot is given back.
Fairness ==
    /\ WF_vars(MainStep)
    /\ \A i \in 1..MaxUrls : WF_vars(TaskStep(i))

SpecLive == InitBatch /\ [][NextBatch]_vars /\ Fairness
\* =================================================================== claims
Running(i) == pc[i] \notin {"none", "gate", "done", "raised"}
InFlight == {i \in Tasks : Running(i)}
OpenPages == {i \in Tasks : page[i] = "open"}
ClosePcs == {"close_context", "close_browser", "close_driver"}

\* C1: scrape_urls_batch returns exactly one result per input URL, and the
\* i-th result is the one the scrape started for urls[i] produced, whatever
\* the order in which the scrapes finished (empty list and duplicates included).
C1_BatchKeepsOrder ==
    (entry = "batch" /\ outcome = "returned") =>
        /\ Len(ret) = Len(urls)
        /\ \A i \in Tasks :
             /\ ret[i] = result[i]
             /\ ret[i].status_code = NONE => ret[i].url = urls[i]

\* A batch of a duplicated URL has returned, the second scrape having finished
\* first and with another result than the first one.
C1_Witness ==
    /\ entry = "batch" /\ outcome = "returned"
    /\ Len(urls) = 2 /\ urls[1] = urls[2]
    /\ finished = <<2, 1>>
    /\ ret[1] # ret[2]

\* C2: in a batch with max_concurrent = K >= 1, at most K scrapes are past the
\* gate and unfinished, and so at most K pages are open, in every state.
C2_ConcurrencyCap ==
    (entry = "batch" /\ max_concurrent >= 1) =>
        /\ Cardinality(InFlight) <= max_concurrent
        /\ Cardinality(OpenPages) <= max_concurrent
        /\ semaphore + Cardinality(InFlight) = max_concurrent \/ pc[0] \notin {"gather"}

\* The cap is reached: K pages are open and another scrape waits at the gate.
C2_Witness ==
    /\ entry = "batch" /\ max_concurrent >= 1
    /\ Cardinality(OpenPages) = max_concurrent
    /\ \E i \in Tasks : pc[i] = "gate"
\* The scrapes that have returned a result to their caller.
Returned == {i \in Tasks : pc[i] = "done"}

\* C3: every result scrape returns has success => html set and error None,
\* and not success => html None and error set, whichever engine step failed.
C3_ResultShape ==
    \A i \in Returned :
        /\ result[i].success => (result[i].html # NONE /\ result[i].error = NONE)
        /\ ~result[i].success => (result[i].html = NONE /\ result[i].error # NONE)

\* C4: scrape never raises to its caller, whatever the state of the session
\* when it is called and whichever engine step fails, the lazy open included.
C4_ScrapeNeverRaises == \A i \in Tasks : pc[i] # "raised"

\* The result the scrape of url gives when the engine answers it with f alone:
\* the fields are filled in up to the step that failed.
ExpectedResult(url, f) ==
    LET navigated == f.failed \notin {"new_page", "goto"}
        responded == navigated /\ f.response # NONE
    IN [url |-> IF responded THEN TheValue(f.response).url ELSE url,
        html |-> IF f.failed \in {"title", "none"} THEN Some("<html>") ELSE NONE,
        title |-> IF f.failed = "none" THEN Some("title") ELSE NONE,
        meta |-> IF f.failed = "none" /\ f.dom # NONE
                   THEN ExtractMetadata(TheValue(f.dom)) ELSE EmptyMeta,
        status_code |-> IF responded THEN Some(TheValue(f.response).status) ELSE NONE,
        timestamp |-> "utcnow",
        success |-> f.failed = "none",
        error |-> CASE f.failed = "none" -> NONE
                    [] f.failed = "new_page" -> Some("new_page failed")
                    [] f.failed = "goto" -> Some("goto failed")
                    [] f.failed = "wait_selector" -> Some("selector timeout")
                    [] f.failed = "content" -> Some("content failed")
                    [] f.failed = "title" -> Some("title failed")]

\* C5: in a batch a failing scrape neither cancels nor changes a sibling: while
\* a scrape runs the shared context is unreleased, every scrape has returned
\* when the batch returns, and each result is the one the engine's answers to
\* that scrape alone determine.
C5_FailureIsolation ==
    entry = "batch" =>
        /\ \A i \in Tasks : Running(i) => Alive(context)
        /\ \A i \in Returned : result[i] = ExpectedResult(urls[i], fate[i])
        /\ outcome = "returned" => Returned = Tasks

\* The first scrape of a batch of two has failed at navigation and returned;
\* the second has returned after it, successful.
C5_Witness ==
    /\ entry = "batch" /\ Len(urls) = 2
    /\ finished = <<1, 2>>
    /\ fate[1].failed = "goto" /\ ~result[1].success
    /\ result[2].success
    /\ outcome = "returned"

\* C6: with max_concurrent >= 1 scrape_urls_batch raises only when the session
\* setup failed, and then no scrape was started and none of the block ran;
\* once the setup has succeeded no failure of a scrape makes it raise.
C6_BatchRaisesOnlyOnSetup ==
    (entry = "batch" /\ max_concurrent >= 1) =>
        /\ outcome = "raised" =>
             /\ context = Unset
             /\ \A i \in Tasks : pc[i] = "none"
             /\ blockexc = "none"
        /\ (outcome # "pending" /\ context # Unset) => outcome = "returned"

\* The browser launch failed after the driver had started: the batch raised.
C6_Witness ==
    /\ entry = "batch" /\ max_concurrent >= 1 /\ Len(urls) = 2
    /\ outcome = "raised"
    /\ playwright # Unset /\ browser = Unset
\* The releases close() attempts, in order, given the fields that are set.
DueReleases ==
    (IF context # Unset THEN <<"context">> ELSE <<>>)
    \o (IF browser # Unset THEN <<"browser">> ELSE <<>>)
    \o (IF playwright # Unset THEN <<"driver">> ELSE <<>>)

C8_ScopedBlock ==
    entry \in {"batch", "url"} =>
        /\ pc[0] \in {"body", "gather", "aexit"} =>
             (context # Unset /\ browser # Unset /\ playwright # Unset /\ closecalls = 0)
        /\ (outcome # "pending" /\ context # Unset) =>
             (closecalls = 1 /\ closelog = DueReleases /\ pc[0] = "done")
        /\ (pc[0] = "done" /\ blockexc # "none") => outcome = "raised"
        /\ (pc[0] = "done" /\ blockexc = "none" /\ context # Unset) => outcome = "returned"

\* The block raised (the semaphore rejected max_concurrent): the session was
\* closed and the exception reached the caller.
C8_Witness ==
    /\ entry = "batch" /\ blockexc = "ValueError"
    /\ closecalls = 1 /\ closelog = <<"context", "browser", "driver">>
    /\ outcome = "raised"

\* A close() call has returned to its caller.
CloseReturned ==
    IF entry = "direct"
      THEN pc[0] = "idle" /\ ops # <<>> /\ ops[Len(ops)] = "close"
      ELSE pc[0] \in {"exit", "done"} /\ closecalls = 1

\* C9: close() attempts the release of the context, then of the browser
\* process, then of the driver; a failing release is suppressed and the later
\* ones are still attempted; close() does not raise.
C9_CloseOrder ==
    /\ pc[0] # "close_failed"
    /\ pc[0] = "close_context" => closelog = <<>>
    /\ pc[0] = "close_browser" => closelog = SubSeq(DueReleases, 1, Len(closelog))
                                  /\ Len(closelog) = (IF context # Unset THEN 1 ELSE 0)
    /\ CloseReturned => closelog = DueReleases

\* close() has returned although the release of the context failed: the browser
\* process and the driver were released after the failure.
C9_Witness ==
    /\ CloseReturned
    /\ closelog = <<"context", "browser", "driver">>
    /\ engine[context].live /\ engine[context].closes = 1
    /\ ~engine[browser].live /\ ~engine[playwright].live

\* The fields of the session name no resource that is still unreleased: the
\* session was never opened, or what it holds has been released.
SessionReleased ==
    \A h \in {context, browser, playwright} : h = Unset \/ ~Alive(h)

\* C10 as stated: a close() on a closed or never opened session does not raise
\* and makes no release call on a resource that was already released.
C10_NoSecondRelease ==
    /\ pc[0] # "close_failed"
    /\ \A h \in DOMAIN engine : engine[h].again = 0

\* C10 as amended: each step of a close() on a session that is already released
\* (or was never opened) returns without raising and changes the state of no
\* engine resource; on a never opened session it makes no release call, on a
\* closed one it repeats the release calls, whose failures are suppressed.
C10_CloseIdempotent ==
    [][(pc[0] \in ClosePcs /\ SessionReleased /\ pc'[0] # pc[0]) =>
          /\ pc'[0] \in ClosePcs \cup {PcAfterClose}
          /\ \A h \in DOMAIN engine : Alive(h)' = Alive(h)
          /\ DOMAIN engine' = DOMAIN engine
          /\ (context = Unset /\ browser = Unset /\ playwright = Unset) =>
                (engine' = engine /\ closelog' = <<>>)]_vars

\* The client opened the session and closed it twice: the second close()
\* returned, having repeated the three release calls on the released resources.
C10_Witness ==
    /\ entry = "direct" /\ ops = <<"open", "close", "close">> /\ pc[0] = "idle"
    /\ context # Unset
    /\ \A h \in {context, browser, playwright} :
          ~engine[h].live /\ engine[h].closes = 2 /\ engine[h].again = 1
    /\ closelog = <<"context", "browser", "driver">>

\* The session is open: its browser process and its context exist.
SessionOpen ==
    /\ browser # Unset /\ context # Unset
    /\ Alive(browser) /\ Alive(context)

\* C11: opening is idempotent: a step of _initialize_browser made while the
\* session is already open launches no driver, browser process or context and
\* leaves the session's fields as they are.
C11_OpenIdempotent ==
    [][(SessionOpen /\ pc[0] \in {"init_start", "init_launch", "init_context"}
          /\ pc'[0] # pc[0]) =>
          /\ engine' = engine
          /\ <<playwright, browser, context>>' = <<playwright, browser, context>>]_vars

\* C12: a scrape_url_sync call makes exactly one scrape_url run (one open, one
\* scrape, one close), on a worker thread exactly when the calling thread has a
\* running event loop; its caller gets nothing before the run has ended, and
\* then the run's result or the run's own error, of whatever type.
C12_SyncRunsOnce ==
    entry = "sync" =>
        /\ received # "nothing" => pc[0] = "sync_done"
        /\ pc[0] = "sync_done" =>
             /\ runs = 1 /\ closecalls <= 1
             /\ thread = "worker" <=> loop_running
             /\ outcome = "returned" => received = "result"
             /\ outcome = "raised" => received = raises

\* C13: with a selector given, scrape reads the HTML and the title only after
\* the selector wait has succeeded: a scrape whose wait failed has success
\* false, html and title None and error set, although the page was loaded, and
\* a result has html, title or success only if the selector appeared.
C13_SelectorBeforeContent ==
    Truthy(wait_for_selector) =>
        \A i \in Tasks :
            /\ (\/ pc[i] \in {"content", "title", "meta"}
                \/ result[i].html # NONE
                \/ result[i].title # NONE
                \/ result[i].success) => fate[i].selector = "appeared"
            /\ fate[i].failed = "wait_selector" =>
                 /\ ~result[i].success
                 /\ result[i].html = NONE /\ result[i].title = NONE
                 /\ result[i].error = Some("selector timeout")
                 /\ pc[i] \in {"close_page", "done"}

\* scrape_url with a selector has returned: the page was loaded (its final URL
\* and status are in the result) but the selector wait failed.
C13_Witness ==
    /\ entry = "url" /\ Truthy(wait_for_selector) /\ outcome = "returned"
    /\ fate[1].failed = "wait_selector" /\ fate[1].response # NONE
    /\ ret[1].status_code # NONE /\ ret[1].html = NONE /\ ~ret[1].success

\* C14: in every result scrape returns, successful or failed, meta is a mapping
\* from strings to strings: no key of meta is mapped to None.
C14_MetaValuesAreStrings ==
    \A i \in Returned : \A k \in DOMAIN result[i].meta : result[i].meta[k] # NONE

\* C15: every page scrape opens has its close attempted before scrape returns,
\* on the success path and on every failure path; a page close that raises is
\* swallowed: scrape still returns, and the step that closes the page changes
\* no field of the result.
C15_PageClosed ==
    /\ [](\A i \in Tasks :
            /\ pc[i] \in {"done", "raised"} => page[i] # "open"
            /\ pageclose[i] # "none" => (page[i] = "closed" /\ pc[i] = "done")
            /\ (pc[i] = "done" /\ pc[0] = "gather") =>
                  (page[i] = "none" <=> pageclose[i] = "none"))
    /\ [][\A i \in Tasks :
            (pc[i] = "close_page" /\ pc'[i] # "close_page") =>
                (pc'[i] = "done" /\ result'[i] = result[i])]_vars

\* A successful scrape and a scrape that failed after its page was opened have
\* both returned although the page close of each raised.
C15_Witness ==
    /\ entry = "batch" /\ Len(urls) = 2 /\ pc[0] = "gather"
    /\ \A i \in Tasks : pc[i] = "done" /\ pageclose[i] = "raised"
    /\ result[1].success /\ ~result[2].success /\ result[2].html # NONE

\* C16 as stated: url is the input URL and becomes the page's final URL on
\* success only: every failed result has the input URL, and status_code and
\* url come from the navigation only when it returned a response object.
C16_FailedKeepsInputUrl ==
    \A i \in Returned :
        /\ ~result[i].success => result[i].url = urls[i]
        /\ fate[i].response = NONE =>
             (result[i].url = urls[i] /\ result[i].status_code = NONE)

\* C16 as amended: url and status_code are taken from the navigation exactly
\* when it returned a response object, whether the scrape then succeeds or
\* fails at a later step; otherwise url is the input URL and status_code None.
C16_UrlFromResponse ==
    \A i \in Returned :
        IF fate[i].response # NONE
          THEN /\ result[i].url = TheValue(fate[i].response).url
               /\ result[i].status_code = Some(TheValue(fate[i].response).status)
          ELSE /\ result[i].url = urls[i]
               /\ result[i].status_code = NONE

\* A scrape has returned a failed result that carries the final URL and the
\* status of its navigation: reading the content failed after the page loaded.
C16_Witness ==
    \E i \in Returned :
        /\ ~result[i].success /\ fate[i].failed = "content"
        /\ result[i].url = "final" /\ result[i].url # urls[i]
        /\ result[i].status_code = Some(200)

\* The <meta> elements _extract_metadata has read when the call d.fail raises.
TagsRead(d) ==
    LET read == CASE d.fail = "tags" -> <<>>
                  [] d.fail = "tag" -> SubSeq(d.tags, 1, Len(d.tags) - 1)
                  [] OTHER -> d.tags
    IN {read[k] : k \in 1..Len(read)}

\* The entries <<key, value>> the extractor has put into its mapping when the
\* call d.fail raises: one per <meta> element read that has a content and a
\* name or else a property, and the canonical link's href once that was read.
CollectedBefore(d) ==
    {<<TheValue(t.name), t.content>> :
        t \in {x \in TagsRead(d) : Truthy(x.name) /\ Truthy(x.content)}}
    \cup
    {<<TheValue(t.property), t.content>> :
        t \in {x \in TagsRead(d) :
                  ~Truthy(x.name) /\ Truthy(x.property) /\ Truthy(x.content)}}
    \cup
    (IF d.fail = "lang" /\ d.canonical # NONE
       THEN {<<"canonical", TheValue(d.canonical)>>} ELSE {})

\* The scrapes that have returned after an engine call of their metadata
\* extraction raised.
ExtractionFailed ==
    {i \in Returned : fate[i].dom # NONE /\ TheValue(fate[i].dom).fail # "none"}

\* C17 as stated: a failing metadata extraction does not raise; the mapping it
\* returns has every entry collected before the failure and the description
\* under extraction_error, and scrape returns success with html, title, no error.
C17_AllCollectedKept ==
    \A i \in ExtractionFailed :
        /\ result[i].success /\ result[i].error = NONE
        /\ result[i].html # NONE /\ result[i].title # NONE
        /\ "extraction_error" \in DOMAIN result[i].meta
        /\ result[i].meta["extraction_error"] = Some("extraction failed")
        /\ \A e \in CollectedBefore(TheValue(fate[i].dom)) :
              e[1] \in DOMAIN result[i].meta /\ result[i].meta[e[1]] = e[2]

\* C17 as amended: the same, except that the description replaces an entry
\* collected under the key extraction_error; the mapping has no other key.
C17_ExtractionNonFatal ==
    \A i \in ExtractionFailed :
        /\ result[i].success /\ result[i].error = NONE
        /\ result[i].html # NONE /\ result[i].title # NONE
        /\ "extraction_error" \in DOMAIN result[i].meta
        /\ result[i].meta["extraction_error"] = Some("extraction failed")
        /\ \A e \in CollectedBefore(TheValue(fate[i].dom)) :
              e[1] # "extraction_error" =>
                 (e[1] \in DOMAIN result[i].meta /\ result[i].meta[e[1]] = e[2])
        /\ DOMAIN result[i].meta =
              {e[1] : e \in CollectedBefore(TheValue(fate[i].dom))}
              \cup {"extraction_error"}

\* scrape_url has returned a successful result for a page with the elements
\* <meta name=extraction_error> and <meta name=author> whose canonical link
\* could not be read: meta holds the author and the failure description.
C17_Witness ==
    /\ entry = "url" /\ outcome = "returned" /\ 1 \in ExtractionFailed
    /\ TheValue(fate[1].dom).fail = "canonical"
    /\ <<"extraction_error", Some("x")>> \in CollectedBefore(TheValue(fate[1].dom))
    /\ ret[1].success
    /\ ret[1].meta = [author |-> Some("me"),
                      extraction_error |-> Some("extraction failed")]

\* scrape_urls_batch has returned: every scrape has returned and given its slot
\* back, and close() was performed on the session.
BatchReturned ==
    /\ pc[0] = "done" /\ outcome = "returned"
    /\ \A i \in Tasks : pc[i] = "done"
    /\ semaphore = max_concurrent
    /\ closecalls = 1 /\ closelog = DueReleases

\* C18: under a fair schedule, with a limit of at least 1: whenever scrapes
\* wait at the gate, eventually none waits any more (a scrape leaves the gate
\* only by getting a slot); once the session is set up the batch eventually
\* returns with every slot given back and the session closed; and the call
\* ends in every case, so that nothing waits forever.
C18_BatchTerminates ==
    /\ (max_concurrent >= 1 /\ \E i \in Tasks : pc[i] = "gate")
          ~> (\A i \in Tasks : pc[i] # "gate")
    /\ (max_concurrent >= 1)
          ~> (pc[0] = "done" /\ (context # Unset => BatchReturned))

\* A batch of two URLs with one slot has returned, the first scrape having
\* failed: the second scrape got the slot the failed one gave back.
C18_Witness ==
    /\ entry = "batch" /\ max_concurrent = 1 /\ Len(urls) = 2
    /\ BatchReturned
    /\ finished = <<1, 2>> /\ ~ret[1].success /\ ret[2].success
    /\ urls = <<"a", "a">>

\* C19: when the first thing done with a WebScraper is a gather of scrape()
\* calls, their lazy opens launch at most one driver, one browser process and
\* one context between them, and a close() after the gather attempts the
\* release of everything that was launched.
C19_LazyOpenOnce ==
    (entry = "direct" /\ ops # <<>> /\ ops[1] = "scrape") =>
        /\ Len(ops) = 1 =>
             \A k \in {"driver", "browser", "context"} :
                 Cardinality({h \in DOMAIN engine : h.kind = k}) <= 1
        /\ (ops = <<"scrape", "close">> /\ pc[0] = "idle") =>
             \A h \in DOMAIN engine : engine[h].closes >= 1

\* C20: when scrape_url or scrape_urls_batch has ended, by return or by
\* raising, every engine resource it started (driver, browser process,
\* context) has had its release attempted.
C20_NoLeakOnSetupFailure ==
    (entry \in {"batch", "url"} /\ outcome # "pending") =>
        \A h \in DOMAIN engine : engine[h].closes >= 1
====
